---- MODULE Spec2Model ----
(***************************************************************************)
(* AccountMethods of PyCharacterAI (methods/synchronous/account.py): the   *)
(* request/response mapping of the account, persona and override           *)
(* operations, with the Requester and the server behind it as the          *)
(* environment.                                                            *)
(*                                                                         *)
(* Representation.                                                         *)
(*  - A JSON object (a Python dict) is a function from keys to values; an  *)
(*    absent key is a key outside its DOMAIN.                              *)
(*  - A JSON value whose type the code inspects (success, status, persona, *)
(*    the collections) is tagged: [t |-> "null"], [t |-> "bool", v |-> b], *)
(*    [t |-> "str", v |-> s], [t |-> "obj", v |-> o], [t |-> "list", ...]. *)
(*  - The free texts name, username, bio and definition are only measured  *)
(*    (len) and tested for emptiness by the code: a text is represented by *)
(*    its length.  Identifiers (persona, character, voice ids, avatar      *)
(*    paths) are strings; the Python None of an identifier argument is the *)
(*    value None below.                                                    *)
(***************************************************************************)
EXTENDS Naturals, Sequences, FiniteSets, TLC

VARIABLES
    serverSettings,  \* the settings object the server holds
    call,            \* call[c]: the current (or last) call of caller c
    events           \* the order of the requests of the interleaved callers

vars == <<serverSettings, call, events>>

-----------------------------------------------------------------------------
(* Python and JSON values *)

None == "None"

JNull == [t |-> "null"]
JBool(b) == [t |-> "bool", v |-> b]
JStr(s) == [t |-> "str", v |-> s]
JObj(o) == [t |-> "obj", v |-> o]
JList(l) == [t |-> "list", v |-> l]

EmptyDict == [k \in {} |-> ""]

\* dict.get(key, default)
Get(d, key, default) == IF key \in DOMAIN d THEN d[key] ELSE default

\* d[key] = value
SetItem(d, key, value) ==
    [k \in DOMAIN d \cup {key} |-> IF k = key THEN value ELSE d[k]]

\* bool(x) of a decoded JSON value
Truthy(j) ==
    CASE j.t = "null" -> FALSE
      [] j.t = "bool" -> j.v
      [] j.t = "str" -> j.v # ""
      [] j.t = "obj" -> DOMAIN j.v # {}
      [] j.t = "list" -> Len(j.v) > 0

\* x == "OK" of a decoded JSON value
IsOK(j) == j.t = "str" /\ j.v = "OK"

\* len(text), and the truth value of a text
TextLen(s) == s
TextTruthy(s) == TextLen(s) > 0
TextOr(s, fallback) == IF TextTruthy(s) THEN s ELSE fallback

\* the truth value of an identifier argument (None and "" are falsy)
IdTruthy(s) == s # None /\ s # ""

-----------------------------------------------------------------------------
(* Requests, responses, outcomes *)

NoBody == [t |-> "none"]
JsonBody(o) == [t |-> "json", v |-> o]

GetRequest(url) == [method |-> "GET", url |-> url, body |-> NoBody]
PostRequest(url, body) == [method |-> "POST", url |-> url, body |-> body]

Response(code, json) == [status_code |-> code, json |-> json]

Exchange(req, resp) == [req |-> req, resp |-> resp]

Return(val) == [kind |-> "return", val |-> val]
Raise(exc) == [kind |-> "raise", exc |-> exc]

Run(reqs, outcome) == [reqs |-> reqs, outcome |-> outcome]

RTrue == [t |-> "bool", v |-> TRUE]

-----------------------------------------------------------------------------
(* The fetch operations *)

fetch_me(resp) ==
    LET req == GetRequest(<<"plus", "chat", "user">>) IN
    IF resp.status_code = 200
    THEN LET user == Get(resp.json, "user", JNull) IN
         IF user.t = "obj"
         THEN Run(<<Exchange(req, resp)>>,
                  Return([t |-> "Account", v |-> Get(user.v, "user", JNull)]))
         ELSE Run(<<Exchange(req, resp)>>, Raise("AttributeError"))
    ELSE Run(<<Exchange(req, resp)>>, Raise("FetchError"))

\* a variant that asks once more after a failure
fetch_my_settings_Retry(resp) ==
    LET req == GetRequest(<<"plus", "chat", "user", "settings">>) IN
    IF resp.status_code = 200
    THEN Run(<<Exchange(req, resp)>>, Return([t |-> "dict", v |-> resp.json]))
    ELSE Run(<<Exchange(req, resp), Exchange(req, resp)>>, Raise("FetchError"))

fetch_my_settings(resp) ==
    LET req == GetRequest(<<"plus", "chat", "user", "settings">>) IN
    IF resp.status_code = 200
    THEN Run(<<Exchange(req, resp)>>, Return([t |-> "dict", v |-> resp.json]))
    ELSE Run(<<Exchange(req, resp)>>, Raise("FetchError"))

\* request.json().get(field, []) returned as it is
RawListFetch(url, field, resp) ==
    LET req == GetRequest(url) IN
    IF resp.status_code = 200
    THEN Run(<<Exchange(req, resp)>>, Return(Get(resp.json, field, JList(<<>>))))
    ELSE Run(<<Exchange(req, resp)>>, Raise("FetchError"))

fetch_my_followers(resp) ==
    RawListFetch(<<"plus", "chat", "user", "followers">>, "followers", resp)

fetch_my_following(resp) ==
    RawListFetch(<<"plus", "chat", "user", "following">>, "following", resp)

\* the loop "for raw in raws: out.append(Constructor(raw))"
MapItems(ctor, raws) == [i \in 1..Len(raws) |-> [t |-> ctor, v |-> raws[i]]]

MappedListFetch(url, field, ctor, resp) ==
    LET req == GetRequest(url) IN
    IF resp.status_code = 200
    THEN LET raws == Get(resp.json, field, JList(<<>>)) IN
         IF raws.t = "list"
         THEN Run(<<Exchange(req, resp)>>, Return(JList(MapItems(ctor, raws.v))))
         ELSE Run(<<Exchange(req, resp)>>, Raise("TypeError"))
    ELSE Run(<<Exchange(req, resp)>>, Raise("FetchError"))

\* a variant that builds the Persona from whatever the field holds
fetch_my_persona_NoNullCheck(persona_id, resp) ==
    LET req == GetRequest(<<"plus", "chat", "persona", "?id=", persona_id>>) IN
    IF resp.status_code = 200
    THEN IF Truthy(Get(resp.json, "persona", JNull))
         THEN Run(<<Exchange(req, resp)>>,
                  Return([t |-> "Persona", v |-> resp.json["persona"].v]))
         ELSE Run(<<Exchange(req, resp)>>, Raise("AttributeError"))
    ELSE Run(<<Exchange(req, resp)>>, Raise("FetchError"))

fetch_my_persona(persona_id, resp) ==
    LET req == GetRequest(<<"plus", "chat", "persona", "?id=", persona_id>>) IN
    IF resp.status_code = 200 /\ Truthy(Get(resp.json, "persona", JNull))
    THEN Run(<<Exchange(req, resp)>>,
             Return([t |-> "Persona", v |-> resp.json["persona"].v]))
    ELSE Run(<<Exchange(req, resp)>>, Raise("FetchError"))

fetch_my_personas(resp) ==
    MappedListFetch(<<"plus", "chat", "personas", "?force_refresh=1">>,
                    "personas", "Persona", resp)

fetch_my_characters(resp) ==
    MappedListFetch(<<"plus", "chat", "characters", "?scope=user">>,
                    "characters", "CharacterShort", resp)

fetch_my_upvoted_characters(resp) ==
    MappedListFetch(<<"plus", "chat", "user", "characters", "upvoted">>,
                    "characters", "CharacterShort", resp)

fetch_my_voices(resp) ==
    MappedListFetch(<<"neo", "multimodal", "api", "v1", "voices", "user">>,
                    "voices", "Voice", resp)

-----------------------------------------------------------------------------
(* The settings update: read, patch, write *)

\* a call suspended at its second request
Pending == [kind |-> "pending"]

\* "nothing to update": every option the update reads is None
UpdateSettingsNothing(options) ==
    /\ Get(options, "default_persona_id", None) = None
    /\ Get(options, "persona_override", None) = None
    /\ Get(options, "voice_override", None) = None

\* a variant that assigns default_persona_id without the "is not None" test
UpdateSettingsPatch_NoNoneTest(settings, options) ==
    LET persona_override == Get(options, "persona_override", None)
        character_id == Get(options, "character_id", None)
        s1 == SetItem(settings, "default_persona_id",
                      Get(options, "default_persona_id", None))
    IN  IF persona_override # None /\ character_id # None
        THEN SetItem(s1, "personaOverrides",
                     SetItem(Get(s1, "personaOverrides", EmptyDict),
                             character_id, persona_override))
        ELSE s1

\* a variant that starts the overrides from an empty dict
UpdateSettingsPatch_FreshOverrides(settings, options) ==
    LET default_persona_id == Get(options, "default_persona_id", None)
        persona_override == Get(options, "persona_override", None)
        character_id == Get(options, "character_id", None)
        s1 == IF default_persona_id # None
              THEN SetItem(settings, "default_persona_id", default_persona_id)
              ELSE settings
    IN  IF persona_override # None /\ character_id # None
        THEN SetItem(s1, "personaOverrides",
                     SetItem(EmptyDict, character_id, persona_override))
        ELSE s1

\* the fetched settings with the provided fields applied
UpdateSettingsPatch(settings, options) ==
    LET default_persona_id == Get(options, "default_persona_id", None)
        persona_override == Get(options, "persona_override", None)
        character_id == Get(options, "character_id", None)
        s1 == IF default_persona_id # None
              THEN SetItem(settings, "default_persona_id", default_persona_id)
              ELSE settings
    IN  IF persona_override # None /\ character_id # None
        THEN SetItem(s1, "personaOverrides",
                     SetItem(Get(s1, "personaOverrides", EmptyDict),
                             character_id, persona_override))
        ELSE s1

UpdateSettingsRequest(settings) ==
    PostRequest(<<"plus", "chat", "user", "update_settings">>, JsonBody(settings))

\* the branch on the update's response
UpdateSettingsResult(resp) ==
    IF resp.status_code = 200 /\ Truthy(Get(resp.json, "success", JBool(FALSE)))
    THEN Return(Get(resp.json, "settings", JNull))
    ELSE Raise("UpdateError")

\* up to the POST: the guard and the settings fetch
UpdateSettingsBegin(options, fetchResp) ==
    IF UpdateSettingsNothing(options)
    THEN Run(<<>>, Raise("UpdateError"))
    ELSE LET f == fetch_my_settings(fetchResp) IN
         IF f.outcome.kind = "raise" THEN f ELSE Run(f.reqs, Pending)

\* the settings object a suspended update holds: the fetched one
FetchedSettings(run) == run.reqs[1].resp.json

\* from the POST on
UpdateSettingsEnd(options, begun, postResp) ==
    LET settings == UpdateSettingsPatch(FetchedSettings(begun), options) IN
    Run(begun.reqs \o <<Exchange(UpdateSettingsRequest(settings), postResp)>>,
        UpdateSettingsResult(postResp))

update_settings(options, fetchResp, postResp) ==
    LET begun == UpdateSettingsBegin(options, fetchResp) IN
    IF begun.outcome.kind = "pending"
    THEN UpdateSettingsEnd(options, begun, postResp)
    ELSE begun

\* a variant without the except clause
SetWrap_Propagate(run) ==
    CASE run.outcome.kind = "return" -> Run(run.reqs, Return(RTrue))
      [] OTHER -> run

\* try: ...; return True / except Exception: raise SetError
SetWrap(run) ==
    CASE run.outcome.kind = "raise" -> Run(run.reqs, Raise("SetError"))
      [] run.outcome.kind = "return" -> Run(run.reqs, Return(RTrue))
      [] OTHER -> run

\* a variant that hands None on
NoneToEmpty_Keep(persona_id) == persona_id

NoneToEmpty(persona_id) == IF persona_id = None THEN "" ELSE persona_id

SetDefaultPersonaOptions(persona_id) ==
    [default_persona_id |-> NoneToEmpty(persona_id)]

SetPersonaOptions(character_id, persona_id) ==
    [persona_override |-> NoneToEmpty(persona_id), character_id |-> character_id]

set_default_persona(persona_id, fetchResp, postResp) ==
    SetWrap(update_settings(SetDefaultPersonaOptions(persona_id), fetchResp, postResp))

unset_default_persona(fetchResp, postResp) ==
    set_default_persona(None, fetchResp, postResp)

set_persona(character_id, persona_id, fetchResp, postResp) ==
    SetWrap(update_settings(SetPersonaOptions(character_id, persona_id),
                            fetchResp, postResp))

unset_persona(character_id, fetchResp, postResp) ==
    set_persona(character_id, None, fetchResp, postResp)

-----------------------------------------------------------------------------
(* The voice override *)

VoiceMethod(voice_id) == IF IdTruthy(voice_id) THEN "update" ELSE "delete"

VoiceBody(voice_id) ==
    IF IdTruthy(voice_id) THEN JsonBody([voice_id |-> voice_id]) ELSE NoBody

\* a variant that looks at the status code alone
VoiceResult_StatusOnly(resp) ==
    IF resp.status_code = 200 THEN Return(RTrue) ELSE Raise("SetError")

VoiceResult(resp) ==
    IF resp.status_code = 200 /\ Truthy(Get(resp.json, "success", JBool(FALSE)))
    THEN Return(RTrue)
    ELSE Raise("SetError")

set_voice(character_id, voice_id, resp) ==
    LET req == PostRequest(<<"plus", "chat", "character", character_id,
                             "voice_override", VoiceMethod(voice_id)>>,
                           VoiceBody(voice_id))
    IN  Run(<<Exchange(req, resp)>>, VoiceResult(resp))

unset_voice(character_id, resp) == set_voice(character_id, None, resp)

-----------------------------------------------------------------------------
(* The length limits of the validations *)

UsernameMinLen == 2
UsernameCheckedMaxLen == 20
AccountNameMinLen == 2
AccountNameMaxLen == 50
BioMaxLen == 500
PersonaNameMinLen == 3
PersonaNameMaxLen == 20
DefinitionMaxLen == 728

-----------------------------------------------------------------------------
(* edit_account *)

\* the first check: it measures the username below and the NAME above
EditAccountUsernameCheck(name, username) ==
    TextLen(username) < UsernameMinLen \/ TextLen(name) > UsernameCheckedMaxLen

EditAccountNameCheck(name) ==
    TextLen(name) < AccountNameMinLen \/ TextLen(name) > AccountNameMaxLen

EditAccountBioCheck(bio) == TextLen(bio) > BioMaxLen

EditAccountInvalid(name, username, bio) ==
    \/ EditAccountUsernameCheck(name, username)
    \/ EditAccountNameCheck(name)
    \/ EditAccountBioCheck(bio)

NewAccountInfo(name, username, bio, avatar_rel_path) ==
    LET info == [avatar_type |-> IF avatar_rel_path # "" THEN "UPLOADED" ELSE "DEFAULT",
                 bio |-> bio, name |-> name, username |-> username]
    IN  IF avatar_rel_path # ""
        THEN SetItem(info, "avatar_rel_path", avatar_rel_path)
        ELSE info

EditAccountResult(resp) ==
    IF resp.status_code = 200 /\ IsOK(Get(resp.json, "status", JStr("")))
    THEN Return(RTrue)
    ELSE Raise("EditError")

edit_account(name, username, bio, avatar_rel_path, resp) ==
    IF EditAccountInvalid(name, username, bio)
    THEN Run(<<>>, Raise("InvalidArgumentError"))
    ELSE LET req == PostRequest(<<"plus", "chat", "user", "update">>,
                        JsonBody(NewAccountInfo(name, username, bio, avatar_rel_path)))
         IN  Run(<<Exchange(req, resp)>>, EditAccountResult(resp))

-----------------------------------------------------------------------------
(* The personas *)

\* a variant with the lower limit off by one
CreatePersonaInvalid_OffByOne(name, definition) ==
    \/ TextLen(name) <= PersonaNameMinLen
    \/ TextLen(name) > PersonaNameMaxLen
    \/ (TextTruthy(definition) /\ TextLen(definition) > DefinitionMaxLen)

CreatePersonaInvalid(name, definition) ==
    \/ TextLen(name) < PersonaNameMinLen
    \/ TextLen(name) > PersonaNameMaxLen
    \/ (TextTruthy(definition) /\ TextLen(definition) > DefinitionMaxLen)

CreatePersonaPayload(name, definition, avatar_rel_path, identifier) ==
    [avatar_file_name |-> "", avatar_rel_path |-> avatar_rel_path,
     base_img_prompt |-> "", categories |-> <<>>, copyable |-> FALSE,
     definition |-> definition, description |-> "This is my persona.",
     greeting |-> "Hello! This is my persona", identifier |-> identifier,
     img_gen_enabled |-> FALSE, name |-> name,
     strip_img_prompt_from_msg |-> FALSE, title |-> name,
     visibility |-> "PRIVATE", voice_id |-> ""]

\* status == "OK" and persona is not None
PersonaResponseOK(resp) ==
    /\ resp.status_code = 200
    /\ IsOK(Get(resp.json, "status", JNull))
    /\ Get(resp.json, "persona", JNull).t # "null"

create_persona(name, definition, avatar_rel_path, identifier, resp) ==
    IF CreatePersonaInvalid(name, definition)
    THEN Run(<<>>, Raise("InvalidArgumentError"))
    ELSE LET req == PostRequest(<<"plus", "chat", "character", "create">>,
                        JsonBody(CreatePersonaPayload(name, definition,
                                                      avatar_rel_path, identifier)))
         IN  Run(<<Exchange(req, resp)>>,
                 IF PersonaResponseOK(resp)
                 THEN Return([t |-> "Persona", v |-> resp.json["persona"].v])
                 ELSE Raise("CreateError"))

EditPersonaInvalid(name, definition) ==
    \/ (TextTruthy(name) /\ (\/ TextLen(name) < PersonaNameMinLen
                             \/ TextLen(name) > PersonaNameMaxLen))
    \/ (TextTruthy(definition) /\ TextLen(definition) > DefinitionMaxLen)

\* old_persona.avatar.get_file_name() if old_persona.avatar else ""
AvatarFileName(old_persona) == Get(old_persona, "avatar_file_name", "")

AccountId == "account-1"

EditPersonaPayload(persona_id, name, definition, avatar_rel_path, old_persona) ==
    LET file == IF avatar_rel_path # "" THEN avatar_rel_path
                ELSE AvatarFileName(old_persona)
    IN  [avatar_file_name |-> file, avatar_rel_path |-> file,
         copyable |-> FALSE, default_voice_id |-> "",
         definition |-> TextOr(definition, old_persona.definition),
         description |-> "This is my persona.", enabled |-> FALSE,
         external_id |-> persona_id, greeting |-> "Hello! This is my persona",
         img_gen_enabled |-> FALSE, is_persona |-> TRUE,
         name |-> TextOr(name, old_persona.name),
         participant__name |-> TextOr(name, old_persona.name),
         participant__num_interactions |-> 0, title |-> name,
         user__id |-> AccountId,
         user__username |-> old_persona.author_username,
         visibility |-> "PRIVATE"]

DeletePersonaPayload(persona_id, old_persona) ==
    [archived |-> TRUE, avatar_file_name |-> AvatarFileName(old_persona),
     copyable |-> FALSE, default_voice_id |-> "",
     definition |-> old_persona.definition,
     description |-> "This is my persona.", external_id |-> persona_id,
     greeting |-> "Hello! This is my persona", img_gen_enabled |-> FALSE,
     is_persona |-> TRUE, name |-> old_persona.name,
     participant__name |-> old_persona.name,
     participant__num_interactions |-> 0, title |-> old_persona.name,
     user__id |-> AccountId,
     user__username |-> old_persona.author_username,
     visibility |-> "PRIVATE"]

PersonaUpdateUrl == <<"plus", "chat", "persona", "update">>

\* a variant without the try
PersonaFetchOr_Propagate(exc, fetched) == fetched

\* try: old_persona = fetch_my_persona(id) / except Exception: raise <exc>
PersonaFetchOr(exc, fetched) ==
    IF fetched.outcome.kind = "raise" THEN Run(fetched.reqs, Raise(exc)) ELSE fetched

edit_persona(persona_id, name, definition, avatar_rel_path, fetchResp, postResp) ==
    IF EditPersonaInvalid(name, definition)
    THEN Run(<<>>, Raise("InvalidArgumentError"))
    ELSE LET fetched == PersonaFetchOr("EditError", fetch_my_persona(persona_id, fetchResp)) IN
         IF fetched.outcome.kind = "raise"
         THEN fetched
         ELSE LET req == PostRequest(PersonaUpdateUrl,
                             JsonBody(EditPersonaPayload(persona_id, name, definition,
                                          avatar_rel_path, fetched.outcome.val.v)))
              IN  Run(fetched.reqs \o <<Exchange(req, postResp)>>,
                      IF PersonaResponseOK(postResp)
                      THEN Return([t |-> "Persona", v |-> postResp.json["persona"].v])
                      ELSE Raise("EditError"))

delete_persona(persona_id, fetchResp, postResp) ==
    LET fetched == PersonaFetchOr("DeleteError", fetch_my_persona(persona_id, fetchResp)) IN
    IF fetched.outcome.kind = "raise"
    THEN fetched
    ELSE LET req == PostRequest(PersonaUpdateUrl,
                        JsonBody(DeletePersonaPayload(persona_id, fetched.outcome.val.v)))
         IN  Run(fetched.reqs \o <<Exchange(req, postResp)>>,
                 IF PersonaResponseOK(postResp)
                 THEN Return(RTrue)
                 ELSE Raise("DeleteError"))

-----------------------------------------------------------------------------
(* The environment: callers' arguments, and the Requester's responses *)

Callers == {"t1", "t2"}
Caller1 == "t1"

PersonaIds == {"p1", "p2"}
CharIds == {"c1", "c2"}
PersonaArgs == PersonaIds \cup {None}
VoiceArgs == {"v1", "", None}
AvatarArgs == {"", "new.png"}
Identifiers == {"id:uuid-1"}

NameLens == {0, 1, 2, 3, 20, 21, 50, 51}
UsernameLens == {1, 2, 20, 21}
BioLens == {0, 500, 501}
DefinitionLens == {0, 728, 729}

FailCodes == {201, 404}
Failures == {Response(code, EmptyDict) : code \in FailCodes}

InitSettings ==
    {[default_persona_id |-> "p0", personaOverrides |-> EmptyDict, theme |-> "dark"],
     [default_persona_id |-> "p0", personaOverrides |-> [c1 |-> "p2"], theme |-> "dark"],
     [theme |-> "dark"]}

\* a JSON object with one optional field
OneField(field, values) ==
    {EmptyDict} \cup {SetItem(EmptyDict, field, v) : v \in values}

FetchMeResponses ==
    {Response(200, j) : j \in OneField("user",
        {JNull, JObj([user |-> JObj([username |-> "me"])])})} \cup Failures

ListResponses(field) ==
    {Response(200, j) : j \in OneField(field,
        {JNull, JList(<<>>), JList(<<"r1">>), JList(<<"r1", "r2">>)})} \cup Failures

StoredPersonas ==
    {[name |-> 5, definition |-> 100, author_username |-> "me",
      avatar_file_name |-> "old.png"],
     [name |-> 7, definition |-> 0, author_username |-> "me"]}

PersonaFetchResponses ==
    {Response(200, j) : j \in OneField("persona",
        {JNull, JObj(EmptyDict)} \cup {JObj(p) : p \in StoredPersonas})} \cup Failures

StatusResponses ==
    {Response(200, j) : j \in OneField("status", {JStr("OK"), JStr("ERROR")})}
        \cup Failures

PersonaPostResponses ==
    {Response(200, j) : j \in
        {EmptyDict,
         [status |-> JStr("OK")],
         [status |-> JStr("OK"), persona |-> JNull],
         [status |-> JStr("ERROR"), persona |-> JObj([name |-> 5]), error |-> "no"],
         [status |-> JStr("OK"), persona |-> JObj([name |-> 5])]}} \cup Failures

SuccessValues == {JNull, JBool(FALSE), JBool(TRUE), JStr("false")}

SuccessResponses ==
    {Response(200, j) : j \in OneField("success", SuccessValues)} \cup Failures

\* the settings endpoint answers 200 with the settings the server holds
SettingsFetchResponses == {Response(200, serverSettings)} \cup Failures

\* the update endpoint echoes the settings it accepted
SettingsPostResponses(settings) ==
    {Response(200, j) : j \in OneField("success", SuccessValues \ {JBool(TRUE)})}
        \cup {Response(200, [success |-> JBool(TRUE), settings |-> JObj(settings)])}
        \cup Failures

Accepted(resp) ==
    /\ resp.status_code = 200
    /\ Get(resp.json, "success", JNull) = JBool(TRUE)

\* the server keeps the settings of an update it answers with success: true
ServerAfter(run) ==
    LET last == run.reqs[Len(run.reqs)] IN
    IF /\ Len(run.reqs) > 0
       /\ last.req.method = "POST"
       /\ last.req.url = <<"plus", "chat", "user", "update_settings">>
       /\ Accepted(last.resp)
    THEN last.req.body.v
    ELSE serverSettings

NoCall == [op |-> "none", args |-> EmptyDict, reqs |-> <<>>, outcome |-> [kind |-> "none"]]

Init ==
    /\ serverSettings \in InitSettings
    /\ call = [c \in Callers |-> NoCall]
    /\ events = <<>>

\* caller c's call of op has run to its end
Finish(c, op, args, run) ==
    /\ call' = [call EXCEPT ![c] = [op |-> op, args |-> args,
                                    reqs |-> run.reqs, outcome |-> run.outcome]]
    /\ serverSettings' = ServerAfter(run)
    /\ UNCHANGED events

-----------------------------------------------------------------------------
(* The operations, each call run from its first line to its return or raise *)

FetchMe(c) ==
    /\ call[c] = NoCall
    /\ \E resp \in FetchMeResponses :
        Finish(c, "fetch_me", EmptyDict, fetch_me(resp))

FetchMySettings(c) ==
    /\ call[c] = NoCall
    /\ \E resp \in SettingsFetchResponses :
        Finish(c, "fetch_my_settings", EmptyDict, fetch_my_settings(resp))

FetchMyFollowers(c) ==
    /\ call[c] = NoCall
    /\ \E resp \in ListResponses("followers") :
        Finish(c, "fetch_my_followers", EmptyDict, fetch_my_followers(resp))

FetchMyFollowing(c) ==
    /\ call[c] = NoCall
    /\ \E resp \in ListResponses("following") :
        Finish(c, "fetch_my_following", EmptyDict, fetch_my_following(resp))

FetchMyPersona(c) ==
    /\ call[c] = NoCall
    /\ \E persona_id \in PersonaIds, resp \in PersonaFetchResponses :
        Finish(c, "fetch_my_persona", [persona_id |-> persona_id],
               fetch_my_persona(persona_id, resp))

FetchMyPersonas(c) ==
    /\ call[c] = NoCall
    /\ \E resp \in ListResponses("personas") :
        Finish(c, "fetch_my_personas", EmptyDict, fetch_my_personas(resp))

FetchMyCharacters(c) ==
    /\ call[c] = NoCall
    /\ \E resp \in ListResponses("characters") :
        Finish(c, "fetch_my_characters", EmptyDict, fetch_my_characters(resp))

FetchMyUpvotedCharacters(c) ==
    /\ call[c] = NoCall
    /\ \E resp \in ListResponses("characters") :
        Finish(c, "fetch_my_upvoted_characters", EmptyDict,
               fetch_my_upvoted_characters(resp))

FetchMyVoices(c) ==
    /\ call[c] = NoCall
    /\ \E resp \in ListResponses("voices") :
        Finish(c, "fetch_my_voices", EmptyDict, fetch_my_voices(resp))

\* an options dict: a key is present when its value is not None
Options(d, p, ch, v) ==
    LET full == [default_persona_id |-> d, persona_override |-> p,
                 character_id |-> ch, voice_override |-> v]
    IN  [k \in {x \in DOMAIN full : full[x] # None} |-> full[k]]

OptionsArgs ==
    {Options(d, p, ch, v) : d \in {None, "", "p2"}, p \in {None, "", "p1"},
                            ch \in {None} \cup CharIds, v \in {None, "v1"}}

\* the responses the POST of an update may get, once its fetch is answered
SettingsPostChoices(options, fetchResp) ==
    LET begun == UpdateSettingsBegin(options, fetchResp) IN
    IF begun.outcome.kind = "pending"
    THEN SettingsPostResponses(UpdateSettingsPatch(FetchedSettings(begun), options))
    ELSE Failures

UpdateSettings(c) ==
    /\ call[c] = NoCall
    /\ \E options \in OptionsArgs, fetchResp \in SettingsFetchResponses :
        \E postResp \in SettingsPostChoices(options, fetchResp) :
            Finish(c, "update_settings", [options |-> options],
                   update_settings(options, fetchResp, postResp))

EditAccount(c) ==
    /\ call[c] = NoCall
    /\ \E name \in NameLens, username \in UsernameLens, bio \in BioLens,
       avatar_rel_path \in AvatarArgs, resp \in StatusResponses :
        Finish(c, "edit_account",
               [name |-> name, username |-> username, bio |-> bio,
                avatar_rel_path |-> avatar_rel_path],
               edit_account(name, username, bio, avatar_rel_path, resp))

CreatePersona(c) ==
    /\ call[c] = NoCall
    /\ \E name \in NameLens, definition \in DefinitionLens,
       avatar_rel_path \in AvatarArgs, identifier \in Identifiers,
       resp \in PersonaPostResponses :
        Finish(c, "create_persona",
               [name |-> name, definition |-> definition,
                avatar_rel_path |-> avatar_rel_path],
               create_persona(name, definition, avatar_rel_path, identifier, resp))

EditPersona(c) ==
    /\ call[c] = NoCall
    /\ \E persona_id \in PersonaIds, name \in NameLens, definition \in DefinitionLens,
       avatar_rel_path \in AvatarArgs, fetchResp \in PersonaFetchResponses,
       postResp \in PersonaPostResponses :
        Finish(c, "edit_persona",
               [persona_id |-> persona_id, name |-> name, definition |-> definition,
                avatar_rel_path |-> avatar_rel_path],
               edit_persona(persona_id, name, definition, avatar_rel_path,
                            fetchResp, postResp))

DeletePersona(c) ==
    /\ call[c] = NoCall
    /\ \E persona_id \in PersonaIds, fetchResp \in PersonaFetchResponses,
       postResp \in PersonaPostResponses :
        Finish(c, "delete_persona", [persona_id |-> persona_id],
               delete_persona(persona_id, fetchResp, postResp))

SetDefaultPersona(c) ==
    /\ call[c] = NoCall
    /\ \E persona_id \in PersonaArgs, fetchResp \in SettingsFetchResponses :
        \E postResp \in SettingsPostChoices(SetDefaultPersonaOptions(persona_id), fetchResp) :
            Finish(c, "set_default_persona", [persona_id |-> persona_id],
                   set_default_persona(persona_id, fetchResp, postResp))

UnsetDefaultPersona(c) ==
    /\ call[c] = NoCall
    /\ \E fetchResp \in SettingsFetchResponses :
        \E postResp \in SettingsPostChoices(SetDefaultPersonaOptions(None), fetchResp) :
            Finish(c, "unset_default_persona", EmptyDict,
                   unset_default_persona(fetchResp, postResp))

SetPersona(c) ==
    /\ call[c] = NoCall
    /\ \E character_id \in CharIds, persona_id \in PersonaArgs,
       fetchResp \in SettingsFetchResponses :
        \E postResp \in SettingsPostChoices(
                            SetPersonaOptions(character_id, persona_id), fetchResp) :
            Finish(c, "set_persona",
                   [character_id |-> character_id, persona_id |-> persona_id],
                   set_persona(character_id, persona_id, fetchResp, postResp))

UnsetPersona(c) ==
    /\ call[c] = NoCall
    /\ \E character_id \in CharIds, fetchResp \in SettingsFetchResponses :
        \E postResp \in SettingsPostChoices(
                            SetPersonaOptions(character_id, None), fetchResp) :
            Finish(c, "unset_persona", [character_id |-> character_id],
                   unset_persona(character_id, fetchResp, postResp))

SetVoice(c) ==
    /\ call[c] = NoCall
    /\ \E character_id \in CharIds, voice_id \in VoiceArgs, resp \in SuccessResponses :
        Finish(c, "set_voice", [character_id |-> character_id, voice_id |-> voice_id],
               set_voice(character_id, voice_id, resp))

UnsetVoice(c) ==
    /\ call[c] = NoCall
    /\ \E character_id \in CharIds, resp \in SuccessResponses :
        Finish(c, "unset_voice", [character_id |-> character_id],
               unset_voice(character_id, resp))

\* the caller has taken the result; the facade keeps nothing of the call
Returned(c) ==
    /\ call[c].outcome.kind \in {"return", "raise"}
    /\ call' = [call EXCEPT ![c] = NoCall]
    /\ UNCHANGED <<serverSettings, events>>

Next ==
    \/ Returned(Caller1)
    \/ FetchMe(Caller1)
    \/ FetchMySettings(Caller1)
    \/ FetchMyFollowers(Caller1)
    \/ FetchMyFollowing(Caller1)
    \/ FetchMyPersona(Caller1)
    \/ FetchMyPersonas(Caller1)
    \/ FetchMyCharacters(Caller1)
    \/ FetchMyUpvotedCharacters(Caller1)
    \/ FetchMyVoices(Caller1)
    \/ UpdateSettings(Caller1)
    \/ EditAccount(Caller1)
    \/ CreatePersona(Caller1)
    \/ EditPersona(Caller1)
    \/ DeletePersona(Caller1)
    \/ SetDefaultPersona(Caller1)
    \/ UnsetDefaultPersona(Caller1)
    \/ SetPersona(Caller1)
    \/ UnsetPersona(Caller1)
    \/ SetVoice(Caller1)
    \/ UnsetVoice(Caller1)

Spec == Init /\ [][Next]_vars

-----------------------------------------------------------------------------
(* Two callers without external serialization.  A setter blocks in its two  *)
(* requests: another caller's requests may be served before, between and    *)
(* after them.  The facade holds no lock and the server no version.         *)

\* calls each caller makes in the interleaved specification
MaxCalls == 1

ConcPersona == [c \in Callers |-> IF c = "t1" THEN "p1" ELSE "p2"]

ConcFailures == {Response(404, EmptyDict)}

ConcFetchResponses == {Response(200, serverSettings)} \cup ConcFailures

ConcPostResponses(settings) ==
    {Response(200, [success |-> JBool(TRUE), settings |-> JObj(settings)])}
        \cup ConcFailures

Event(c, step, stored) == [caller |-> c, step |-> step, stored |-> stored]

CallsBegun(c) ==
    Cardinality({i \in DOMAIN events : events[i].caller = c /\ events[i].step = "fetch"})

\* the options a setter call hands to the settings update
CallOptions(rec) ==
    CASE rec.op = "set_persona" ->
            SetPersonaOptions(rec.args.character_id, rec.args.persona_id)
      [] rec.op = "unset_persona" ->
            SetPersonaOptions(rec.args.character_id, None)

\* the call runs up to the answer of its settings fetch
Begin(c, op, args, fetchResp) ==
    LET run == SetWrap(UpdateSettingsBegin(
                   CallOptions([op |-> op, args |-> args]), fetchResp))
    IN  /\ call' = [call EXCEPT ![c] = [op |-> op, args |-> args,
                                        reqs |-> run.reqs, outcome |-> run.outcome]]
        /\ events' = Append(events, Event(c, "fetch", FALSE))
        /\ UNCHANGED serverSettings

BeginSetPersona(c) ==
    /\ call[c].outcome.kind # "pending"
    /\ CallsBegun(c) < MaxCalls
    /\ \E character_id \in CharIds, fetchResp \in ConcFetchResponses :
        Begin(c, "set_persona",
              [character_id |-> character_id, persona_id |-> ConcPersona[c]],
              fetchResp)

BeginUnsetPersona(c) ==
    /\ call[c].outcome.kind # "pending"
    /\ CallsBegun(c) < MaxCalls
    /\ \E character_id \in CharIds, fetchResp \in ConcFetchResponses :
        Begin(c, "unset_persona", [character_id |-> character_id], fetchResp)

\* the call goes on from its fetched settings: patch, POST, return or raise
EndSet(c) ==
    /\ call[c].outcome.kind = "pending"
    /\ LET options == CallOptions(call[c])
           begun == Run(call[c].reqs, Pending)
       IN  \E postResp \in ConcPostResponses(
                               UpdateSettingsPatch(FetchedSettings(begun), options)) :
            LET run == SetWrap(UpdateSettingsEnd(options, begun, postResp)) IN
            /\ call' = [call EXCEPT ![c] = [op |-> call[c].op, args |-> call[c].args,
                                            reqs |-> run.reqs, outcome |-> run.outcome]]
            /\ serverSettings' = ServerAfter(run)
            /\ events' = Append(events, Event(c, "post", Accepted(postResp)))

NextConc ==
    \E c \in Callers :
        \/ BeginSetPersona(c)
        \/ BeginUnsetPersona(c)
        \/ EndSet(c)

SpecConc == Init /\ [][NextConc]_vars

-----------------------------------------------------------------------------
(* Properties of the sequential caller (specification Spec) *)

K == call[Caller1]

Finished(k) == k.outcome.kind \in {"return", "raise"}
Raised(k, exc) == k.outcome.kind = "raise" /\ k.outcome.exc = exc
ReturnedTrue(k) ==
    /\ k.outcome.kind = "return"
    /\ k.outcome.val.t = "bool"
    /\ k.outcome.val.v = TRUE

IsPost(x, url) == x.req.method = "POST" /\ x.req.url = url

\* C1: edit_account raises InvalidArgumentError, with no request issued,
\* exactly when the username is shorter than 2 or longer than 20, the name
\* shorter than 2 or longer than 50, or the bio longer than 500; for every
\* other combination of lengths it issues exactly one POST.
C1_EditAccountValidates ==
    K.op = "edit_account" =>
        LET rejected == \/ K.args.username < 2 \/ K.args.username > 20
                        \/ K.args.name < 2 \/ K.args.name > 50
                        \/ K.args.bio > 500
        IN  IF rejected
            THEN Raised(K, "InvalidArgumentError") /\ K.reqs = <<>>
            ELSE /\ ~Raised(K, "InvalidArgumentError")
                 /\ Len(K.reqs) = 1
                 /\ IsPost(K.reqs[1], <<"plus", "chat", "user", "update">>)

\* C2: create_persona raises InvalidArgumentError, with no request issued,
\* whenever the name is shorter than 3 or longer than 20 or the definition
\* longer than 728; for a name of 3..20 and a definition of 0..728 characters
\* it issues exactly one POST.
C2_CreatePersonaValidates ==
    K.op = "create_persona" =>
        IF K.args.name < 3 \/ K.args.name > 20 \/ K.args.definition > 728
        THEN Raised(K, "InvalidArgumentError") /\ K.reqs = <<>>
        ELSE /\ ~Raised(K, "InvalidArgumentError")
             /\ Len(K.reqs) = 1
             /\ IsPost(K.reqs[1], <<"plus", "chat", "character", "create">>)

C2_Witness ==
    /\ K.op = "create_persona" /\ K.args.name = 20 /\ K.args.definition = 728
    /\ Len(K.reqs) = 1 /\ K.outcome.kind = "return"

\* key k is in both objects with one value, or in neither
SameAt(a, b, k) ==
    /\ k \in DOMAIN a <=> k \in DOMAIN b
    /\ k \in DOMAIN a => a[k] = b[k]

\* the fields a call of the settings update is given: the options of a direct
\* call, a setter's arguments with the empty string for None
GivenOptions(k) ==
    CASE k.op = "update_settings" -> k.args.options
      [] k.op = "set_default_persona" ->
            [default_persona_id |->
                IF k.args.persona_id = "None" THEN "" ELSE k.args.persona_id]
      [] k.op = "unset_default_persona" -> [default_persona_id |-> ""]
      [] k.op = "set_persona" ->
            [character_id |-> k.args.character_id,
             persona_override |->
                IF k.args.persona_id = "None" THEN "" ELSE k.args.persona_id]
      [] k.op = "unset_persona" ->
            [character_id |-> k.args.character_id, persona_override |-> ""]

\* C3: the body POSTed by the settings update is the settings object just
\* fetched with only the provided fields changed: default_persona_id replaced
\* only when given, personaOverrides[character_id] set only when override and
\* character are both given, every other key and every other character's
\* override as fetched.
C3_UpdatePatchesOnlyGiven ==
    (K.op \in {"update_settings", "set_default_persona", "unset_default_persona",
               "set_persona", "unset_persona"} /\ Len(K.reqs) = 2) =>
        LET options == GivenOptions(K)
            fetched == K.reqs[1].resp.json
            body == K.reqs[2].req.body.v
            both == {"persona_override", "character_id"} \subseteq DOMAIN options
            old == IF "personaOverrides" \in DOMAIN fetched
                   THEN fetched["personaOverrides"] ELSE EmptyDict
        IN  /\ IsPost(K.reqs[2], <<"plus", "chat", "user", "update_settings">>)
            /\ \A k \in (DOMAIN fetched \cup DOMAIN body)
                        \ {"default_persona_id", "personaOverrides"} :
                   SameAt(fetched, body, k)
            /\ IF "default_persona_id" \in DOMAIN options
               THEN /\ "default_persona_id" \in DOMAIN body
                    /\ body["default_persona_id"] = options["default_persona_id"]
               ELSE SameAt(fetched, body, "default_persona_id")
            /\ IF both
               THEN /\ "personaOverrides" \in DOMAIN body
                    /\ DOMAIN body["personaOverrides"] =
                           DOMAIN old \cup {options["character_id"]}
                    /\ \A ch \in DOMAIN body["personaOverrides"] :
                           body["personaOverrides"][ch] =
                               IF ch = options["character_id"]
                               THEN options["persona_override"] ELSE old[ch]
               ELSE SameAt(fetched, body, "personaOverrides")

\* the example of the claim, with a further override and a further key that
\* must both be submitted as fetched
C3_Witness ==
    /\ K.op = "update_settings" /\ Len(K.reqs) = 2
    /\ K.args.options = [character_id |-> "c2", persona_override |-> "p1"]
    /\ K.reqs[1].resp.json =
           [default_persona_id |-> "p0", personaOverrides |-> [c1 |-> "p2"],
            theme |-> "dark"]
    /\ K.reqs[2].req.body.v =
           [default_persona_id |-> "p0",
            personaOverrides |-> [c1 |-> "p2", c2 |-> "p1"], theme |-> "dark"]

\* the persona fetch got no persona: not 200, or 200 with the persona null,
\* absent or empty
PersonaFetchFailed(x) ==
    \/ x.resp.status_code # 200
    \/ "persona" \notin DOMAIN x.resp.json
    \/ x.resp.json["persona"].t = "null"
    \/ (x.resp.json["persona"].t = "obj" /\ DOMAIN x.resp.json["persona"].v = {})

\* C4: when the preliminary persona fetch fails for any reason, edit_persona
\* raises EditError and delete_persona raises DeleteError, never the
\* FetchError, and no POST to the persona update endpoint is issued.
C4_PersonaFetchFailureWrapped ==
    (K.op \in {"edit_persona", "delete_persona"} /\ Len(K.reqs) >= 1
        /\ PersonaFetchFailed(K.reqs[1])) =>
        /\ Raised(K, IF K.op = "edit_persona" THEN "EditError" ELSE "DeleteError")
        /\ \A i \in DOMAIN K.reqs : ~IsPost(K.reqs[i], PersonaUpdateUrl)

C4_Witness ==
    /\ K.op = "delete_persona" /\ Len(K.reqs) = 1
    /\ K.reqs[1].resp.status_code = 200
    /\ K.reqs[1].resp.json = [persona |-> JNull]
    /\ Raised(K, "DeleteError")

FetchOps ==
    {"fetch_me", "fetch_my_settings", "fetch_my_followers", "fetch_my_following",
     "fetch_my_persona", "fetch_my_personas", "fetch_my_characters",
     "fetch_my_upvoted_characters", "fetch_my_voices"}

\* the collection field each list-returning fetch reads
CollectionField(op) ==
    CASE op = "fetch_my_followers" -> "followers"
      [] op = "fetch_my_following" -> "following"
      [] op = "fetch_my_personas" -> "personas"
      [] op = "fetch_my_characters" -> "characters"
      [] op = "fetch_my_upvoted_characters" -> "characters"
      [] op = "fetch_my_voices" -> "voices"

ListFetchOps ==
    {"fetch_my_followers", "fetch_my_following", "fetch_my_personas",
     "fetch_my_characters", "fetch_my_upvoted_characters", "fetch_my_voices"}

\* C5: each of the nine fetches raises FetchError on every response that is
\* not 200; fetch_my_persona raises FetchError too on a 200 whose persona is
\* null or absent; a list-returning fetch returns an empty list on a 200
\* whose collection field is absent.
C5_FetchErrors ==
    (K.op \in FetchOps /\ Len(K.reqs) >= 1) =>
        LET resp == K.reqs[1].resp IN
        /\ resp.status_code # 200 => Raised(K, "FetchError")
        /\ (/\ K.op = "fetch_my_persona" /\ resp.status_code = 200
            /\ \/ "persona" \notin DOMAIN resp.json
               \/ resp.json["persona"].t = "null")
               => Raised(K, "FetchError")
        /\ (/\ K.op \in ListFetchOps /\ resp.status_code = 200
            /\ CollectionField(K.op) \notin DOMAIN resp.json)
               => /\ K.outcome.kind = "return"
                  /\ K.outcome.val.t = "list"
                  /\ K.outcome.val.v = <<>>

C5_Witness ==
    /\ K.op = "fetch_my_persona" /\ Len(K.reqs) = 1
    /\ K.reqs[1].resp.status_code = 200
    /\ K.reqs[1].resp.json = [persona |-> JNull]
    /\ Raised(K, "FetchError")

VoiceOps == {"set_voice", "unset_voice"}

\* the voice id a voice call carries: unset_voice carries None
VoiceIdOf(k) == IF k.op = "set_voice" THEN k.args.voice_id ELSE None

\* the one request of a voice call is the POST the claim describes
VoiceRequestShape(k) ==
    /\ Len(k.reqs) = 1
    /\ k.reqs[1].req.method = "POST"
    /\ IF VoiceIdOf(k) \notin {None, ""}
       THEN /\ k.reqs[1].req.url = <<"plus", "chat", "character",
                                     k.args.character_id, "voice_override", "update">>
            /\ k.reqs[1].req.body = [t |-> "json", v |-> [voice_id |-> VoiceIdOf(k)]]
       ELSE /\ k.reqs[1].req.url = <<"plus", "chat", "character",
                                     k.args.character_id, "voice_override", "delete">>
            /\ k.reqs[1].req.body = [t |-> "none"]

\* the response carries success: true, the JSON boolean
SuccessIsTrue(resp) ==
    /\ "success" \in DOMAIN resp.json
    /\ resp.json["success"].t = "bool"
    /\ resp.json["success"].v = TRUE

\* the response carries a success value that Python takes for true
SuccessIsTruthy(resp) ==
    /\ "success" \in DOMAIN resp.json
    /\ \/ resp.json["success"].t = "bool" /\ resp.json["success"].v = TRUE
       \/ resp.json["success"].t = "str" /\ resp.json["success"].v # ""

\* C6, as claimed: a voice call issues the one POST (update path with body
\* {voice_id} for a non-empty voice id, delete path without body otherwise),
\* returns true only on HTTP 200 with success == true, and raises SetError in
\* every other case.
C6_VoiceSuccessIsTrue ==
    K.op \in VoiceOps =>
        /\ VoiceRequestShape(K)
        /\ IF K.reqs[1].resp.status_code = 200 /\ SuccessIsTrue(K.reqs[1].resp)
           THEN ReturnedTrue(K)
           ELSE Raised(K, "SetError")

\* C6, amended: the same, with "success == true" read as "success is truthy":
\* a voice call returns true exactly on HTTP 200 with a truthy success value
\* (true, or a non-empty string such as "false"), and raises SetError on
\* every other response.
C6_VoiceSuccessIsTruthy ==
    K.op \in VoiceOps =>
        /\ VoiceRequestShape(K)
        /\ IF K.reqs[1].resp.status_code = 200 /\ SuccessIsTruthy(K.reqs[1].resp)
           THEN ReturnedTrue(K)
           ELSE Raised(K, "SetError")

C6_Witness ==
    /\ K.op = "set_voice" /\ K.args.voice_id = "v1" /\ Len(K.reqs) = 1
    /\ K.reqs[1].resp = [status_code |-> 200, json |-> [success |-> JStr("false")]]
    /\ ReturnedTrue(K)

SetterOps ==
    {"set_default_persona", "unset_default_persona", "set_persona", "unset_persona"}

\* C8: for the four settings setters every failure of the inner update
\* (settings fetch not 200, update POST not 200, success false or absent)
\* surfaces as SetError, never FetchError or UpdateError; the call returns
\* true only when the update POST answered 200 with a truthy success.
C8_SetterFailuresAreSetError ==
    K.op \in SetterOps =>
        LET posted == Len(K.reqs) = 2
            postOK == /\ posted
                      /\ K.reqs[2].resp.status_code = 200
                      /\ SuccessIsTruthy(K.reqs[2].resp)
        IN  /\ Len(K.reqs) >= 1
            /\ K.reqs[1].resp.status_code # 200 => Raised(K, "SetError")
            /\ (posted /\ K.reqs[2].resp.status_code # 200) => Raised(K, "SetError")
            /\ (posted /\ \/ "success" \notin DOMAIN K.reqs[2].resp.json
                          \/ K.reqs[2].resp.json["success"] = JBool(FALSE))
                   => Raised(K, "SetError")
            /\ K.outcome.kind = "raise" => K.outcome.exc = "SetError"
            /\ ReturnedTrue(K) => postOK
            /\ ~postOK => Raised(K, "SetError")

C8_Witness ==
    /\ K.op = "set_persona" /\ Len(K.reqs) = 2
    /\ K.reqs[1].resp.status_code = 200
    /\ K.reqs[2].resp = [status_code |-> 200, json |-> [success |-> JBool(FALSE)]]
    /\ Raised(K, "SetError")

PublicOps == FetchOps \cup SetterOps \cup VoiceOps
                 \cup {"edit_account", "create_persona", "edit_persona", "delete_persona"}

PassedValidation(k) == Finished(k) /\ ~Raised(k, "InvalidArgumentError")

\* the exchange got what the call needs to go on to its second request
FirstAnswered(k) ==
    IF k.op \in {"edit_persona", "delete_persona"}
    THEN ~PersonaFetchFailed(k.reqs[1])
    ELSE k.reqs[1].resp.status_code = 200

\* the call issued its fetch and, only when that was answered, the POST to url
FetchThenPost(k, url) ==
    /\ Len(k.reqs) \in {1, 2}
    /\ k.reqs[1].req.method = "GET"
    /\ Len(k.reqs) = 2 <=> FirstAnswered(k)
    /\ Len(k.reqs) = 2 => IsPost(k.reqs[2], url)

\* C9, as claimed: every public operation that passes validation issues
\* exactly one request, except edit_persona and delete_persona, which issue
\* two in sequence (persona fetch, then update POST; the fetch alone when it
\* fails, as no request follows a failure).
C9_OneRequestOrTwoForPersona ==
    (K.op \in PublicOps /\ PassedValidation(K)) =>
        IF K.op \in {"edit_persona", "delete_persona"}
        THEN FetchThenPost(K, PersonaUpdateUrl)
        ELSE Len(K.reqs) = 1

TwoStepOps == SetterOps \cup {"edit_persona", "delete_persona"}

\* C9, amended: every public operation that passes validation issues exactly
\* one request, except edit_persona, delete_persona and the four settings
\* setters, which issue a GET and, only when that fetch succeeded, one POST
\* after it (two requests), and only the GET when it failed (one request);
\* no operation issues a request after a failed one.
C9_OneRequestOrFetchThenPost ==
    (K.op \in PublicOps /\ PassedValidation(K)) =>
        IF K.op \in TwoStepOps
        THEN FetchThenPost(K, IF K.op \in SetterOps
                              THEN <<"plus", "chat", "user", "update_settings">>
                              ELSE PersonaUpdateUrl)
        ELSE Len(K.reqs) = 1

C9_Witness ==
    /\ K.op = "set_persona" /\ Len(K.reqs) = 2 /\ ReturnedTrue(K)

-----------------------------------------------------------------------------
(* Properties of the interleaved callers (specification SpecConc) *)

\* the place of caller c's last fetch, and last POST, in the order of requests
LastEvent(c, step) ==
    LET at == {i \in DOMAIN events : events[i].caller = c /\ events[i].step = step}
    IN  CHOOSE i \in at : \A j \in at : j <= i

\* a setter call of caller c that issued both requests, each answered with
\* success, so that the server stored what it posted
Stored(c) ==
    /\ call[c].op \in {"set_persona", "unset_persona"}
    /\ Finished(call[c])
    /\ Len(call[c].reqs) = 2
    /\ call[c].reqs[1].resp.status_code = 200
    /\ call[c].reqs[2].resp.status_code = 200
    /\ SuccessIsTrue(call[c].reqs[2].resp)

\* no POST was stored at a place of the order strictly between i and j
NoStoreBetween(i, j) ==
    \A n \in DOMAIN events :
        (i < n /\ n < j) => ~(events[n].step = "post" /\ events[n].stored)

\* the override the call asks for: "" for an unset
AskedOverride(k) ==
    IF k.op = "unset_persona" \/ k.args.persona_id = "None" THEN "" ELSE k.args.persona_id

\* the override of character ch in a settings object: "absent" when there is none
OverrideIn(settings, ch) ==
    IF "personaOverrides" \in DOMAIN settings
           /\ ch \in DOMAIN settings["personaOverrides"]
    THEN settings["personaOverrides"][ch]
    ELSE "absent"

\* C7: unset_persona is idempotent: two consecutive unset_persona(c) calls,
\* each answered 200 with success by a server that stores what is posted,
\* both return true, and the second submits the body the first submitted.
C7_UnsetPersonaIdempotent ==
    /\ \A a \in Callers :
        (/\ call[a].op = "unset_persona" /\ Finished(call[a])
         /\ \A i \in DOMAIN call[a].reqs :
                /\ call[a].reqs[i].resp.status_code = 200
                /\ call[a].reqs[i].req.method = "POST"
                       => SuccessIsTrue(call[a].reqs[i].resp))
            => ReturnedTrue(call[a]) /\ Len(call[a].reqs) = 2
    /\ \A a, b \in Callers :
        (/\ a # b /\ Stored(a) /\ Stored(b)
         /\ call[a].op = "unset_persona" /\ call[b].op = "unset_persona"
         /\ call[a].args.character_id = call[b].args.character_id
         /\ LastEvent(a, "post") < LastEvent(b, "fetch")
         /\ NoStoreBetween(LastEvent(a, "post"), LastEvent(b, "fetch")))
            => /\ ReturnedTrue(call[a]) /\ ReturnedTrue(call[b])
               /\ call[b].reqs[2].req = call[a].reqs[2].req

\* two consecutive unset_persona("c2") calls on settings without an override
\* for c2
C7_Witness ==
    /\ Stored("t1") /\ Stored("t2")
    /\ call["t1"].op = "unset_persona" /\ call["t2"].op = "unset_persona"
    /\ call["t1"].args.character_id = "c2" /\ call["t2"].args.character_id = "c2"
    /\ OverrideIn(call["t1"].reqs[1].resp.json, "c2") = "absent"
    /\ Len(events) = 4
    /\ LastEvent("t1", "post") = 2 /\ LastEvent("t2", "fetch") = 3
    /\ call["t2"].reqs[2].req = call["t1"].reqs[2].req

\* caller b's POST is the last one stored
LastStored(b) ==
    \A n \in DOMAIN events :
        (n > LastEvent(b, "post")) => ~(events[n].step = "post" /\ events[n].stored)

\* C10: the settings read-modify-write has no guard.  Two setter calls for
\* different characters that both fetch before either posts both return
\* true, and the settings the server ends with hold only the later poster's
\* override: the earlier poster's character is as the later poster fetched
\* it (a lost update).  When the earlier call's POST is stored before the
\* later call's fetch, the final settings hold both overrides.
C10_LostUpdateUnlessSerialized ==
    \A a, b \in Callers :
        (/\ a # b /\ Stored(a) /\ Stored(b)
         /\ call[a].args.character_id # call[b].args.character_id
         /\ LastEvent(a, "post") < LastEvent(b, "post")
         /\ LastStored(b))
            => LET cha == call[a].args.character_id
                   chb == call[b].args.character_id
                   seen == call[b].reqs[1].resp.json
               IN  /\ ReturnedTrue(call[a]) /\ ReturnedTrue(call[b])
                   /\ OverrideIn(serverSettings, chb) = AskedOverride(call[b])
                   /\ (/\ LastEvent(a, "fetch") < LastEvent(a, "post")
                       /\ LastEvent(b, "fetch") < LastEvent(a, "post"))
                          => /\ OverrideIn(serverSettings, cha) = OverrideIn(seen, cha)
                             /\ OverrideIn(seen, cha) # AskedOverride(call[a])
                                    => OverrideIn(serverSettings, cha)
                                           # AskedOverride(call[a])
                   /\ (/\ LastEvent(a, "post") < LastEvent(b, "fetch")
                       /\ NoStoreBetween(LastEvent(a, "post"), LastEvent(b, "fetch")))
                          => OverrideIn(serverSettings, cha) = AskedOverride(call[a])

\* set_persona("c1", "p1") and set_persona("c2", "p2") both fetched the empty
\* overrides, caller 1 posted first, both returned true: c1's override is lost
C10_Witness ==
    /\ Stored("t1") /\ Stored("t2")
    /\ call["t1"].op = "set_persona" /\ call["t2"].op = "set_persona"
    /\ call["t1"].args = [character_id |-> "c1", persona_id |-> "p1"]
    /\ call["t2"].args = [character_id |-> "c2", persona_id |-> "p2"]
    /\ events = <<Event("t1", "fetch", FALSE), Event("t2", "fetch", FALSE),
                  Event("t1", "post", TRUE), Event("t2", "post", TRUE)>>
    /\ ReturnedTrue(call["t1"]) /\ ReturnedTrue(call["t2"])
    /\ OverrideIn(call["t1"].reqs[1].resp.json, "c1") = "absent"
    /\ OverrideIn(call["t2"].reqs[1].resp.json, "c1") = "absent"
    /\ OverrideIn(serverSettings, "c1") = "absent"
    /\ OverrideIn(serverSettings, "c2") = "p2"

====
